---- MODULE Spec2Model ----
(***************************************************************************)
(* The NewUpload component of the worksheet frontend                       *)
(* (frontend/src/components/worksheets/NewUpload/NewUpload.jsx): its form  *)
(* state, its hidden file input, and the two-request upload flow that      *)
(* uploadFile starts.  Strings that the code inspects character by         *)
(* character (file names, query strings) are sequences of one-character    *)
(* strings.                                                                *)
(***************************************************************************)
EXTENDS Integers, Sequences, FiniteSets, TLC

VARIABLES
    state,        \* this.state: name, description, tags, url
    inputFiles,   \* this.inputFile.files, the hidden input's FileList
    attempts,     \* one record per uploadFile call that got past the null guard
    nextUuid,     \* the bundle service: the next bundle id it hands out
    lastOp        \* history: the last UI event handler that ran

vars == <<state, inputFiles, attempts, nextUuid, lastOp>>

----------------------------------------------------------------------------
(* Bounds *)

MaxAttempts == 2     \* upload attempts started in one run
MaxTags == 2         \* tags held by the chip input
MaxStemLen == 2      \* characters before the suffix of a generated file name

----------------------------------------------------------------------------
(* JavaScript values *)

\* The value of a property that was never set.
Undefined == "<undefined>"

\* A URL-valued expression that evaluates to undefined.
UndefinedUrl == [undefined |-> TRUE]

\* Array.prototype.slice(start, end) for 0-based, non-negative indices.
slice(s, start, end) ==
    LET lo == IF start > Len(s) THEN Len(s) ELSE start
        hi == IF end > Len(s) THEN Len(s) ELSE end
    IN  IF hi <= lo THEN <<>> ELSE SubSeq(s, lo + 1, hi)

\* String.prototype.endsWith
EndsWith(s, suffix) ==
    /\ Len(suffix) <= Len(s)
    /\ SubSeq(s, Len(s) - Len(suffix) + 1, Len(s)) = suffix

----------------------------------------------------------------------------
(* File names *)

DataZip == <<"d", "a", "t", "a", ".", "z", "i", "p">>
NotesTxt == <<"n", "o", "t", "e", "s", ".", "t", "x", "t">>

ZipExt == <<".", "z", "i", "p">>
GzExt == <<".", "g", "z">>
TarGzExt == <<".", "t", "a", "r", ".", "g", "z">>
TgzExt == <<".", "t", "g", "z">>
TxtExt == <<".", "t", "x", "t">>

\* The files the user can pick or drag in the interactive specification.
UploadFiles == {[name |-> DataZip], [name |-> NotesTxt]}

StemChars == {"d", " ", "."}

RECURSIVE SeqsUpTo(_, _)
SeqsUpTo(S, n) ==
    IF n = 0 THEN {<<>>}
    ELSE LET shorter == SeqsUpTo(S, n - 1)
         IN  shorter \cup {Append(s, c) : s \in shorter, c \in S}

Stems == SeqsUpTo(StemChars, MaxStemLen)
Suffixes == {<<>>, TxtExt, ZipExt, GzExt, TarGzExt, TgzExt}

\* The file names getQueryParams is exercised on.
AllFileNames == {s \o e : s \in Stems, e \in Suffixes} \cup {DataZip, NotesTxt}

----------------------------------------------------------------------------
(* util/worksheet_utils: the helpers NewUpload.jsx imports *)

\* The archive extensions the helpers recognise, longest spelling first.
ARCHIVE_EXTS == <<TarGzExt, TgzExt, ZipExt, GzExt>>

pathIsArchive(name) ==
    \E i \in 1..Len(ARCHIVE_EXTS) : EndsWith(name, ARCHIVE_EXTS[i])

\* The first recognised extension the name ends in, or the empty string.
getArchiveExt(name) ==
    IF pathIsArchive(name)
    THEN LET i == CHOOSE k \in 1..Len(ARCHIVE_EXTS) :
                    /\ EndsWith(name, ARCHIVE_EXTS[k])
                    /\ \A j \in 1..(k - 1) : ~EndsWith(name, ARCHIVE_EXTS[j])
         IN  ARCHIVE_EXTS[i]
    ELSE <<>>

\* Characters a bundle name may hold.
NameChars ==
    {"a", "d", "e", "g", "i", "n", "o", "p", "r", "s", "t", "x", "z",
     "0", "1", "_", ".", "-"}

\* The default bundle name derived from a file name: the archive extension is
\* dropped and every character a bundle name may not hold becomes a dash.
createDefaultBundleName(name) ==
    LET stripped == SubSeq(name, 1, Len(name) - Len(getArchiveExt(name)))
    IN  [i \in 1..Len(stripped) |->
            IF stripped[i] \in NameChars THEN stripped[i] ELSE "-"]

\* The JSON body of the metadata-creation request.
getDefaultBundleMetadata(name) ==
    [name |-> createDefaultBundleName(name)]

\* The text handed to alert(): the request URL and the server's response text.
createAlertText(requestURL, responseText) ==
    [requestURL |-> requestURL, responseText |-> responseText]

----------------------------------------------------------------------------
(* jQuery's $.param and getQueryParams *)

\* Characters encodeURIComponent leaves alone.
UriUnreserved == NameChars \cup {"!", "~", "*", "'", "(", ")"}

\* encodeURIComponent of one character; an escape is one element.  The only
\* reserved characters a file name of the model holds are the space and "?".
encodeChar(c) ==
    IF c \in UriUnreserved THEN c
    ELSE IF c = " " THEN "%20"
    ELSE "%3F"

encodeURIComponent(str) == [i \in 1..Len(str) |-> encodeChar(str[i])]

\* What the server reads back from an encoded component.
decodeChar(c) ==
    IF c \in {"%20", "+"} THEN " "
    ELSE IF c = "%3F" THEN "?"
    ELSE c

decodeURIComponent(str) == [i \in 1..Len(str) |-> decodeChar(str[i])]

\* String(n) for the single-digit numbers the query holds.
ToStr(n) == IF n = 0 THEN <<"0">> ELSE <<"1">>

\* $.param: the key=value pairs of a query string, in the object's key order.
param(pairs) ==
    [i \in 1..Len(pairs) |->
        [key |-> pairs[i].key, value |-> encodeURIComponent(pairs[i].value)]]

\* Mutant: the archive extension is not put back on the file name.
getQueryParams_NoExt(filename) ==
    param(<< [key |-> "finalize", value |-> ToStr(1)],
             [key |-> "filename", value |-> createDefaultBundleName(filename)],
             [key |-> "unpack",
              value |-> ToStr(IF pathIsArchive(filename) THEN 1 ELSE 0)] >>)

getQueryParams(filename) ==
    LET formattedFilename == createDefaultBundleName(filename)
        queryParams == <<
            [key |-> "finalize", value |-> ToStr(1)],
            [key |-> "filename",
             value |-> IF pathIsArchive(filename)
                       THEN formattedFilename \o getArchiveExt(filename)
                       ELSE formattedFilename],
            [key |-> "unpack",
             value |-> ToStr(IF pathIsArchive(filename) THEN 1 ELSE 0)] >>
    IN  param(queryParams)

\* The decoded value of a key of a query string, or Undefined when absent.
QueryValue(query, key) ==
    IF \E i \in 1..Len(query) : query[i].key = key
    THEN decodeURIComponent(
            query[CHOOSE i \in 1..Len(query) : query[i].key = key].value)
    ELSE <<Undefined>>

----------------------------------------------------------------------------
(* The component: props, form state, file input *)

\* this.props: the worksheet to insert into and the position in it.
worksheetUUID == "0xw1"
after_sort_key == "k7"

defaultConfig == [name |-> "untitled-upload", description |-> "", tags |-> <<>>]

\* The values the text inputs and the chip input can deliver.
Names == {"untitled-upload", "n1"}
Descriptions == {"", "d1"}
Urls == {"", "u1"}
Tags == {"t1", "t2"}

\* React's setState with an object: the keys given replace the state's, the
\* other keys of the state stay.
setState(st, partial) ==
    [k \in DOMAIN st |-> IF k \in DOMAIN partial THEN partial[k] ELSE st[k]]

\* The chip input's callbacks, as functions of the previous tags.
onValueAdd(tags, value) == tags \o <<value>>

\* Mutant: the second slice starts at idx, so nothing is removed.
onValueDelete_OffByOne(tags, idx) ==
    slice(tags, 0, idx) \o slice(tags, idx, Len(tags))

onValueDelete(tags, idx) ==
    slice(tags, 0, idx) \o slice(tags, idx + 1, Len(tags))

\* The history record of a UI event.
Op(op, value, idx, before, dragged) ==
    [op |-> op, value |-> value, idx |-> idx, before |-> before,
     dragged |-> dragged]

NoOp == Op("none", "", 0, <<>>, <<>>)

----------------------------------------------------------------------------
(* One upload attempt: what uploadFile's closures hold and what it has done *)

PostUrl(worksheet, sortKey) ==
    [path |-> "/rest/bundles", worksheet |-> worksheet,
     after_sort_key |-> sortKey]

PutUrl(bundleUuid, filename) ==
    [path |-> "/rest/bundles/<uuid>/contents/blob/", bundle |-> bundleUuid,
     query |-> getQueryParams(filename)]

\* `this.url` inside the POST error callback: the component has no url
\* property (the clone URL lives in this.state.url).
thisUrl == UndefinedUrl

\* `reader.url` inside the PUT error callback: a FileReader has no url
\* property.
readerUrl == UndefinedUrl

\* Mutant: the read is started together with the POST.
NewAttempt_ReadAtOnce(file) ==
    [file |-> file,
     postUrl |-> PostUrl(worksheetUUID, after_sort_key),
     postData |-> getDefaultBundleMetadata(file.name),
     postStatus |-> "pending",
     postResponseId |-> 0,
     postResponseText |-> "",
     bundleUuid |-> 0,
     reader |-> "loading",
     puts |-> <<>>,
     alerts |-> <<>>,
     reloads |-> 0]

\* uploadFile(file), past the null guard: the POST is issued.
NewAttempt(file) ==
    [file |-> file,
     postUrl |-> PostUrl(worksheetUUID, after_sort_key),
     postData |-> getDefaultBundleMetadata(file.name),
     postStatus |-> "pending",
     postResponseId |-> 0,       \* data.data[0].id of the POST's response
     postResponseText |-> "",
     bundleUuid |-> 0,           \* the success callback's bundleUuid
     reader |-> "unset",         \* the FileReader: unset, loading, load, error
     puts |-> <<>>,              \* the PUT requests issued
     alerts |-> <<>>,            \* the alert() calls made
     reloads |-> 0]              \* the reloadWorksheet() calls made

\* The POST's success callback: keeps data.data[0].id and starts the read.
PostSuccessCallback(a, id) ==
    [a EXCEPT !.postStatus = "success", !.postResponseId = id,
              !.bundleUuid = id, !.reader = "loading"]

\* Mutant: the error callback alerts and goes on to read the file.
PostErrorCallback_FallsThrough(a, responseText) ==
    [a EXCEPT !.postStatus = "error", !.postResponseText = responseText,
              !.alerts = Append(@, createAlertText(thisUrl, responseText)),
              !.reader = "loading"]

\* The POST's error callback.
PostErrorCallback(a, responseText) ==
    [a EXCEPT !.postStatus = "error", !.postResponseText = responseText,
              !.alerts = Append(@, createAlertText(thisUrl, responseText))]

\* Mutant: the bundle id is kept in one place shared by all attempts, so the
\* PUT goes to the bundle created last.
ReaderOnload_SharedUuid(a) ==
    [a EXCEPT !.reader = "load",
              !.puts = Append(@, [url |-> PutUrl(nextUuid - 1, a.file.name),
                                  status |-> "pending",
                                  responseText |-> ""])]

\* reader.onload: builds the URL and issues the PUT.
ReaderOnload(a) ==
    [a EXCEPT !.reader = "load",
              !.puts = Append(@, [url |-> PutUrl(a.bundleUuid, a.file.name),
                                  status |-> "pending",
                                  responseText |-> ""])]

\* The read fails: the reader has no onerror handler, so nothing runs.
ReaderOnerror(a) == [a EXCEPT !.reader = "error"]

\* The PUT's success callback.
PutSuccessCallback(a) ==
    [a EXCEPT !.puts[Len(a.puts)].status = "success",
              !.reloads = @ + 1]

\* Mutant: the error callback also reloads the worksheet.
PutErrorCallback_Reloads(a, responseText) ==
    [a EXCEPT !.puts[Len(a.puts)].status = "error",
              !.puts[Len(a.puts)].responseText = responseText,
              !.alerts = Append(@, createAlertText(readerUrl, responseText)),
              !.reloads = @ + 1]

\* The PUT's error callback.
PutErrorCallback(a, responseText) ==
    [a EXCEPT !.puts[Len(a.puts)].status = "error",
              !.puts[Len(a.puts)].responseText = responseText,
              !.alerts = Append(@, createAlertText(readerUrl, responseText))]

\* uploadFile(file): files is the FileList whose first element is passed.
uploadFile(as, files) ==
    IF files = <<>> THEN as ELSE Append(as, NewAttempt(files[1]))

\* The server's error response texts.
ErrorTexts == {"e1", "e2"}

\* Mutant: a drop uploads what was dragged in.
dropFile_UsesDataTransfer(as, inputFileFiles, dataTransferFiles) ==
    uploadFile(as, IF dataTransferFiles # <<>> THEN dataTransferFiles
                   ELSE inputFileFiles)

\* dropFile: uploads the hidden input's first file; the event's own
\* dataTransfer is not read.
dropFile(as, inputFileFiles, dataTransferFiles) ==
    uploadFile(as, inputFileFiles)

\* dropDir: reads the event's files and posts nothing.
dropDir(as, dataTransferFiles) == as

----------------------------------------------------------------------------
(* Initial state: the component as constructed and mounted *)

\* The constructor's this.state = {...this.defaultConfig}: url is not set.
InitialState ==
    [name |-> defaultConfig.name,
     description |-> defaultConfig.description,
     tags |-> defaultConfig.tags,
     url |-> Undefined]

Init ==
    /\ state = InitialState
    /\ inputFiles = <<>>
    /\ attempts = <<>>
    /\ nextUuid = 1
    /\ lastOp = NoOp

----------------------------------------------------------------------------
(* UI events *)

NameChange(value) ==
    /\ state' = setState(state, [name |-> value])
    /\ lastOp' = Op("onNameChange", value, 0, <<>>, <<>>)
    /\ UNCHANGED <<inputFiles, attempts, nextUuid>>

DescriptionChange(value) ==
    /\ state' = setState(state, [description |-> value])
    /\ lastOp' = Op("onDescriptionChange", value, 0, <<>>, <<>>)
    /\ UNCHANGED <<inputFiles, attempts, nextUuid>>

UrlChange(value) ==
    /\ state' = setState(state, [url |-> value])
    /\ lastOp' = Op("onUrlChange", value, 0, <<>>, <<>>)
    /\ UNCHANGED <<inputFiles, attempts, nextUuid>>

TagAdd(value) ==
    /\ Len(state.tags) < MaxTags
    /\ state' = setState(state, [tags |-> onValueAdd(state.tags, value)])
    /\ lastOp' = Op("onValueAdd", value, Len(state.tags), state.tags, <<>>)
    /\ UNCHANGED <<inputFiles, attempts, nextUuid>>

TagDelete(idx) ==
    /\ idx < Len(state.tags)
    /\ state' = setState(state, [tags |-> onValueDelete(state.tags, idx)])
    /\ lastOp' = Op("onValueDelete", state.tags[idx + 1], idx, state.tags, <<>>)
    /\ UNCHANGED <<inputFiles, attempts, nextUuid>>

ClearClick ==
    /\ state' = setState(state, defaultConfig)
    /\ lastOp' = Op("clearForm", "", 0, <<>>, <<>>)
    /\ UNCHANGED <<inputFiles, attempts, nextUuid>>

\* The Confirm button: an alert that belongs to no upload attempt.
ConfirmClick ==
    /\ lastOp' = Op("confirm", "New Upload Confirmed", 0, <<>>, <<>>)
    /\ UNCHANGED <<state, inputFiles, attempts, nextUuid>>

\* The user picks (or cancels) in the file dialog: the input's selection
\* changes and the change event runs dropFile.
FileChange(files) ==
    /\ files # inputFiles
    /\ files # <<>> => Len(attempts) < MaxAttempts
    /\ inputFiles' = files
    /\ attempts' = dropFile(attempts, files, <<>>)
    /\ lastOp' = Op("changeFile", "", 0, <<>>, <<>>)
    /\ UNCHANGED <<state, nextUuid>>

\* The user drops a file on the single-file target.
FileDrop(dragged) ==
    /\ inputFiles # <<>> => Len(attempts) < MaxAttempts
    /\ attempts' = dropFile(attempts, inputFiles, dragged)
    /\ lastOp' = Op("dropFile", "", 0, <<>>, dragged)
    /\ UNCHANGED <<state, inputFiles, nextUuid>>

\* The user drops files on the directory target.
DirDrop(dragged) ==
    /\ attempts' = dropDir(attempts, dragged)
    /\ lastOp' = Op("dropDir", "", 0, <<>>, dragged)
    /\ UNCHANGED <<state, inputFiles, nextUuid>>

----------------------------------------------------------------------------
(* Responses and callbacks of attempt i *)

PostSuccess(i) ==
    /\ i <= Len(attempts)
    /\ attempts[i].postStatus = "pending"
    /\ attempts' = [attempts EXCEPT ![i] = PostSuccessCallback(@, nextUuid)]
    /\ nextUuid' = nextUuid + 1
    /\ UNCHANGED <<state, inputFiles, lastOp>>

PostError(i, responseText) ==
    /\ i <= Len(attempts)
    /\ attempts[i].postStatus = "pending"
    /\ attempts' = [attempts EXCEPT ![i] = PostErrorCallback(@, responseText)]
    /\ UNCHANGED <<state, inputFiles, nextUuid, lastOp>>

ReaderLoad(i) ==
    /\ i <= Len(attempts)
    /\ attempts[i].reader = "loading"
    /\ attempts' = [attempts EXCEPT ![i] = ReaderOnload(@)]
    /\ UNCHANGED <<state, inputFiles, nextUuid, lastOp>>

ReaderError(i) ==
    /\ i <= Len(attempts)
    /\ attempts[i].reader = "loading"
    /\ attempts' = [attempts EXCEPT ![i] = ReaderOnerror(@)]
    /\ UNCHANGED <<state, inputFiles, nextUuid, lastOp>>

PutPending(a) ==
    /\ a.puts # <<>>
    /\ a.puts[Len(a.puts)].status = "pending"

PutSuccess(i) ==
    /\ i <= Len(attempts)
    /\ PutPending(attempts[i])
    /\ attempts' = [attempts EXCEPT ![i] = PutSuccessCallback(@)]
    /\ UNCHANGED <<state, inputFiles, nextUuid, lastOp>>

PutError(i, responseText) ==
    /\ i <= Len(attempts)
    /\ PutPending(attempts[i])
    /\ attempts' = [attempts EXCEPT ![i] = PutErrorCallback(@, responseText)]
    /\ UNCHANGED <<state, inputFiles, nextUuid, lastOp>>

----------------------------------------------------------------------------
(* Specifications *)

Selections == {<<>>} \cup {<<f>> : f \in UploadFiles}
Payloads == {<<f>> : f \in UploadFiles}

FormEvent ==
    \/ \E v \in Names : NameChange(v)
    \/ \E v \in Descriptions : DescriptionChange(v)
    \/ \E v \in Urls : UrlChange(v)
    \/ \E v \in Tags : TagAdd(v)
    \/ \E idx \in 0..(MaxTags - 1) : TagDelete(idx)
    \/ ClearClick
    \/ ConfirmClick

FileEvent ==
    \/ \E files \in Selections : FileChange(files)
    \/ \E dragged \in Payloads : FileDrop(dragged)
    \/ \E dragged \in Payloads : DirDrop(dragged)

Callback(i) ==
    \/ PostSuccess(i)
    \/ \E t \in ErrorTexts : PostError(i, t)
    \/ ReaderLoad(i)
    \/ ReaderError(i)
    \/ PutSuccess(i)
    \/ \E t \in ErrorTexts : PutError(i, t)

Next ==
    \/ FormEvent
    \/ FileEvent
    \/ \E i \in 1..MaxAttempts : Callback(i)

Spec == Init /\ [][Next]_vars

\* The form alone: the form handlers read and write this.state only.
SpecForm == Init /\ [][FormEvent]_vars

\* The upload flow alone: uploadFile and its callbacks never read this.state.
UploadNext ==
    \/ FileEvent
    \/ \E i \in 1..MaxAttempts : Callback(i)

SpecUpload == Init /\ [][UploadNext]_vars

\* The browser delivers every response of an issued request and every
\* outcome of a started read; the user need not do anything.
Fairness ==
    \A i \in 1..MaxAttempts :
        /\ WF_vars(PostSuccess(i) \/ \E t \in ErrorTexts : PostError(i, t))
        /\ WF_vars(ReaderLoad(i) \/ ReaderError(i))
        /\ WF_vars(PutSuccess(i) \/ \E t \in ErrorTexts : PutError(i, t))

FairUpload == SpecUpload /\ Fairness

\* getQueryParams over every generated file name: the hidden input holds any
\* one of them and the user drops onto the single-file target.
InitParams ==
    /\ state = InitialState
    /\ inputFiles \in {<<[name |-> n]>> : n \in AllFileNames}
    /\ attempts = <<>>
    /\ nextUuid = 1
    /\ lastOp = NoOp

ParamsNext ==
    \/ \E dragged \in Payloads : FileDrop(dragged)
    \/ \E i \in 1..MaxAttempts : Callback(i)

SpecParams == InitParams /\ [][ParamsNext]_vars

----------------------------------------------------------------------------
(* The per-attempt state machine, read off an attempt's requests *)

LastPut(a) == a.puts[Len(a.puts)]

AttemptState(a) ==
    IF a.postStatus = "pending" THEN "MetadataRequested"
    ELSE IF a.postStatus = "error" THEN "Failed"
    ELSE IF a.puts = <<>> THEN "MetadataCreated"
    ELSE IF LastPut(a).status = "pending" THEN "ContentUploading"
    ELSE IF LastPut(a).status = "success" THEN "Completed"
    ELSE "Failed"

Started == 1..Len(attempts)

----------------------------------------------------------------------------
(* Metadata-creation failure *)

\* C1: an attempt whose metadata-creation POST failed has raised exactly one
\* alert, has issued no content-upload PUT and has not invoked
\* reloadWorksheet; this holds in every state after the failure.
C1_PostFailureAlertsOnceNoPut ==
    \A i \in Started :
        attempts[i].postStatus = "error" =>
            /\ Len(attempts[i].alerts) = 1
            /\ attempts[i].puts = <<>>
            /\ attempts[i].reloads = 0

\* Both attempts have failed at the POST, with different server texts.
C1_Witness ==
    /\ Len(attempts) = 2
    /\ attempts[1].postStatus = "error"
    /\ attempts[2].postStatus = "error"
    /\ attempts[1].postResponseText # attempts[2].postResponseText
    /\ Len(attempts[1].alerts) = 1

----------------------------------------------------------------------------
(* Content-upload failure *)

\* C2: an attempt whose POST succeeded and whose content-upload PUT then
\* failed has raised exactly one alert and has not invoked reloadWorksheet.
C2_PutFailureAlertsOnceNoReload ==
    \A i \in Started :
        (attempts[i].puts # <<>> /\ LastPut(attempts[i]).status = "error") =>
            /\ attempts[i].postStatus = "success"
            /\ Len(attempts[i].alerts) = 1
            /\ attempts[i].reloads = 0

\* An attempt's PUT has failed while another attempt completed.
C2_Witness ==
    \E i, j \in Started :
        /\ attempts[i].puts # <<>>
        /\ LastPut(attempts[i]).status = "error"
        /\ Len(attempts[i].alerts) = 1
        /\ AttemptState(attempts[j]) = "Completed"

----------------------------------------------------------------------------
(* Ordering of the two requests *)

\* C3: every PUT an attempt has issued was issued after that attempt's POST
\* succeeded with a bundle handle, and is addressed to exactly that handle;
\* an attempt whose POST is pending or failed has issued no PUT.
C3_PutOnlyAfterPostSucceeded ==
    \A i \in Started :
        \A k \in 1..Len(attempts[i].puts) :
            /\ attempts[i].postStatus = "success"
            /\ attempts[i].postResponseId # 0
            /\ attempts[i].puts[k].url.bundle = attempts[i].postResponseId

\* A PUT is in flight to the handle the POST returned, while the other
\* attempt's POST is still pending.
C3_Witness ==
    \E i, j \in Started :
        /\ attempts[i].puts # <<>>
        /\ LastPut(attempts[i]).status = "pending"
        /\ LastPut(attempts[i]).url.bundle = attempts[i].postResponseId
        /\ attempts[j].postStatus = "pending"

----------------------------------------------------------------------------
(* Query parameters of the content upload *)

\* The query string of attempt i's PUT, as the server decodes it.
PutParam(a, key) == QueryValue(LastPut(a).url.query, key)

\* C4: for every file name, the query built for the PUT has finalize = 1;
\* if the name ends in a recognised archive extension then unpack = 1 and the
\* filename parameter is the derived default bundle name followed by an
\* archive extension the name ends in; otherwise unpack = 0 and the filename
\* parameter is the derived default bundle name alone.  data.zip keeps its
\* .zip suffix with unpack = 1, notes.txt has unpack = 0.
C4_QueryParamsFollowArchiveExt ==
    \A i \in Started :
        attempts[i].puts # <<>> =>
            LET a == attempts[i]
                name == a.file.name
                exts == {ARCHIVE_EXTS[k] : k \in 1..Len(ARCHIVE_EXTS)}
                isArchive == \E e \in exts : EndsWith(name, e)
            IN  /\ PutParam(a, "finalize") = <<"1">>
                /\ isArchive =>
                      /\ PutParam(a, "unpack") = <<"1">>
                      /\ \E e \in exts :
                            /\ EndsWith(name, e)
                            /\ PutParam(a, "filename")
                                 = createDefaultBundleName(name) \o e
                /\ ~isArchive =>
                      /\ PutParam(a, "unpack") = <<"0">>
                      /\ PutParam(a, "filename") = createDefaultBundleName(name)
                /\ name = DataZip =>
                      /\ PutParam(a, "unpack") = <<"1">>
                      /\ EndsWith(PutParam(a, "filename"), ZipExt)
                /\ name = NotesTxt => PutParam(a, "unpack") = <<"0">>

\* The PUT for "d .tar.gz" has been issued with unpack = 1, and the PUT for a
\* second drop of the same file too.
C4_Witness ==
    /\ Len(attempts) = 2
    /\ attempts[1].file.name = <<"d", " ">> \o TarGzExt
    /\ attempts[1].puts # <<>>
    /\ attempts[2].puts # <<>>
    /\ PutParam(attempts[1], "unpack") = <<"1">>
    /\ PutParam(attempts[1], "filename") = <<"d", "-">> \o TarGzExt

----------------------------------------------------------------------------
(* The form *)

\* C5: after the Clear button's handler has run, the form state is the
\* default tuple: name 'untitled-upload', description empty, tags empty, url
\* empty (a url that was never set counts as empty).
C5_ClearResetsWholeForm ==
    lastOp.op = "clearForm" =>
        /\ state.name = "untitled-upload"
        /\ state.description = ""
        /\ state.tags = <<>>
        /\ state.url \in {"", Undefined}

\* A step that runs the handler named op.
StepOf(op) == lastOp' # lastOp /\ lastOp'.op = op

----------------------------------------------------------------------------
(* The alert *)

\* C7: every alert an attempt has raised combines the URL of the request
\* that failed (the POST URL after a metadata-creation failure, the PUT URL
\* after a content-upload failure) with the server's response text.
C7_AlertNamesFailingUrl ==
    \A i \in Started :
        \A k \in 1..Len(attempts[i].alerts) :
            LET a == attempts[i]
            IN  IF a.postStatus = "error"
                THEN a.alerts[k] = createAlertText(a.postUrl, a.postResponseText)
                ELSE /\ a.puts # <<>>
                     /\ a.alerts[k] = createAlertText(LastPut(a).url,
                                                      LastPut(a).responseText)

----------------------------------------------------------------------------
(* Concurrent attempts *)

\* What attempt a has shown the outside: its requests, alerts and reloads.
Effects(a) ==
    [postUrl |-> a.postUrl, postData |-> a.postData, puts |-> a.puts,
     alerts |-> a.alerts, reloads |-> a.reloads]

\* C8: attempts in flight together are independent under every interleaving:
\* each attempt's PUT goes to the handle its own POST returned and carries
\* the query built from its own file's name, and a step that starts an
\* attempt or runs a callback of one attempt leaves the requests, alerts and
\* reloads of every other attempt as they were.  All attempts are addressed
\* to the same worksheet target.
C8_AttemptsIndependent ==
    /\ [](\A i \in Started :
            /\ attempts[i].postUrl = PostUrl(worksheetUUID, after_sort_key)
            /\ attempts[i].postData = getDefaultBundleMetadata(attempts[i].file.name)
            /\ \A k \in 1..Len(attempts[i].puts) :
                  /\ attempts[i].puts[k].url.bundle = attempts[i].postResponseId
                  /\ attempts[i].puts[k].url.query
                        = getQueryParams(attempts[i].file.name)
            /\ Len(attempts[i].puts) <= 1
            /\ Len(attempts[i].alerts) + attempts[i].reloads <= 1)
    /\ [][ /\ Len(attempts') >= Len(attempts)
           /\ \A i \in Started :
                 /\ attempts'[i].file = attempts[i].file
                 /\ Effects(attempts'[i]) # Effects(attempts[i]) =>
                       \A j \in 1..Len(attempts') :
                           j # i => /\ j \in Started
                                    /\ attempts'[j] = attempts[j]
                 /\ Len(attempts') > Len(attempts) =>
                       attempts'[i] = attempts[i]
         ]_vars

\* Two attempts for different files overlapped: the second's POST resolved
\* first, the first's PUT failed and the second's PUT succeeded.
C8_Witness ==
    /\ Len(attempts) = 2
    /\ attempts[1].file # attempts[2].file
    /\ attempts[2].postResponseId = 1
    /\ attempts[1].postResponseId = 2
    /\ AttemptState(attempts[1]) = "Failed"
    /\ AttemptState(attempts[2]) = "Completed"
    /\ LastPut(attempts[1]).url.bundle = 2
    /\ LastPut(attempts[2]).url.bundle = 1

----------------------------------------------------------------------------
(* Termination of an attempt *)

Terminal(i) ==
    /\ i <= Len(attempts)
    /\ \/ /\ AttemptState(attempts[i]) = "Completed"
          /\ attempts[i].reloads = 1
          /\ attempts[i].alerts = <<>>
       \/ /\ AttemptState(attempts[i]) = "Failed"
          /\ Len(attempts[i].alerts) = 1
          /\ attempts[i].reloads = 0

\* C9: when every issued request gets its response and every started read
\* its outcome, every attempt that was started eventually is Completed
\* (reloadWorksheet invoked once) or Failed (one alert raised).
C9_EveryAttemptEnds ==
    \A i \in 1..MaxAttempts : [](i <= Len(attempts) => <>Terminal(i))

----------------------------------------------------------------------------
(* Which file is uploaded *)

\* C10: an attempt is started only by a drop or change event on the
\* single-file target, one attempt per event, and only when the hidden input
\* holds a file; the attempt's file is the input's first file at the time of
\* the event, whatever the drop event dragged in.  Such an event with an
\* empty input, and every drop on the directory target, changes no attempt.
C10_UploadsTheInputsFirstFile ==
    [][ /\ Len(attempts') > Len(attempts) =>
              /\ Len(attempts') = Len(attempts) + 1
              /\ lastOp'.op \in {"dropFile", "changeFile"}
              /\ inputFiles' # <<>>
              /\ attempts'[Len(attempts')].file = inputFiles'[1]
              /\ lastOp'.op = "dropFile" => inputFiles' = inputFiles
        /\ ((StepOf("dropFile") \/ StepOf("changeFile")) /\ inputFiles' # <<>>) =>
              Len(attempts') = Len(attempts) + 1
        /\ ((StepOf("dropFile") \/ StepOf("changeFile")) /\ inputFiles' = <<>>) =>
              attempts' = attempts
        /\ StepOf("dropDir") => attempts' = attempts
      ]_vars

\* data.zip was picked and started the first attempt; then notes.txt was
\* dropped on the target and the second attempt uploads data.zip again.
C10_Witness ==
    /\ Len(attempts) = 2
    /\ lastOp.op = "dropFile"
    /\ lastOp.dragged = <<[name |-> NotesTxt]>>
    /\ inputFiles = <<[name |-> DataZip]>>
    /\ attempts[2].file = [name |-> DataZip]
    /\ attempts[2].postStatus = "pending"

====
